---- MODULE Spec2Model ----
(***************************************************************************)
(* A model of asmkit: the entity arena and label registry of asmkit-core   *)
(* (entity.rs, lib.rs) and the x86_64 instruction stream of asmkit-x86_64  *)
(* (register.rs, stream.rs).                                               *)
(*                                                                         *)
(* Representation.  A u8 is an integer 0..255.  TLC's integers are 32 bits *)
(* wide, so a u16/u32/u64/u128 is the sequence of its 16-bit limbs, most   *)
(* significant limb first (1/2/4/8 limbs); to_le_bytes is computed from    *)
(* the limbs by division and remainder.  A register is the string of its   *)
(* variant's name.  A LabelRef is the integer it wraps.                    *)
(***************************************************************************)
EXTENDS Integers, Sequences, FiniteSets, TLC

(***************************************************************************)
(* Bounds of the model.                                                    *)
(***************************************************************************)
\* labels a stream may hold before create_label* is no longer called
MaxLabels == 3
\* raw write_* calls made on a stream in Spec and SpecWrite
MaxWrites == 2
\* pushes made on the entity list in SpecEntity
MaxPushes == 4
\* an instruction form is called while the buffer holds at most this many bytes
MaxStart == 1

(***************************************************************************)
(* 8-bit arithmetic used by the encoder.                                   *)
(***************************************************************************)
RECURSIVE BitOr(_, _)
\* a | b on unsigned integers
BitOr(a, b) ==
    IF a = 0 THEN b
    ELSE IF b = 0 THEN a
    ELSE (IF a % 2 = 1 \/ b % 2 = 1 THEN 1 ELSE 0) + 2 * BitOr(a \div 2, b \div 2)

RECURSIVE Pow2(_)
Pow2(n) == IF n = 0 THEN 1 ELSE 2 * Pow2(n - 1)

\* a << n on a u8
Shl8(a, n) == (a * Pow2(n)) % 256

(***************************************************************************)
(* stream.rs: the REX prefix constants.                                    *)
(***************************************************************************)
REX == 64
REX_W == 8
REX_R == 4
REX_X == 2
REX_B == 1

(***************************************************************************)
(* register.rs: the register enumerations and their classification.        *)
(***************************************************************************)
Reg8 == {"Al", "Bl", "Cl", "Dl", "Sil", "Dil", "Bpl", "Spl", "Ah", "Bh", "Ch", "Dh",
         "R8b", "R9b", "R10b", "R11b", "R12b", "R13b", "R14b", "R15b"}

Reg8_offset(r) ==
    CASE r = "Al" -> 0 [] r = "Cl" -> 1 [] r = "Dl" -> 2 [] r = "Bl" -> 3
      [] r = "Spl" -> 4 [] r = "Bpl" -> 5 [] r = "Sil" -> 6 [] r = "Dil" -> 7
      [] r = "Ah" -> 4 [] r = "Ch" -> 5 [] r = "Dh" -> 6 [] r = "Bh" -> 7
      [] r = "R8b" -> 0 [] r = "R9b" -> 1 [] r = "R10b" -> 2 [] r = "R11b" -> 3
      [] r = "R12b" -> 4 [] r = "R13b" -> 5 [] r = "R14b" -> 6 [] r = "R15b" -> 7

Reg8_is_extension(r) ==
    r \in {"R8b", "R9b", "R10b", "R11b", "R12b", "R13b", "R14b", "R15b"}

Reg8_is_reserved(r) == r \in {"Spl", "Bpl", "Sil", "Dil"}

Reg16 == {"Ax", "Bx", "Cx", "Dx", "Si", "Di", "Bp", "Sp",
          "R8w", "R9w", "R10w", "R11w", "R12w", "R13w", "R14w", "R15w"}

Reg16_offset(r) ==
    CASE r = "Ax" -> 0 [] r = "Cx" -> 1 [] r = "Dx" -> 2 [] r = "Bx" -> 3
      [] r = "Sp" -> 4 [] r = "Bp" -> 5 [] r = "Si" -> 6 [] r = "Di" -> 7
      [] r = "R8w" -> 0 [] r = "R9w" -> 1 [] r = "R10w" -> 2 [] r = "R11w" -> 3
      [] r = "R12w" -> 4 [] r = "R13w" -> 5 [] r = "R14w" -> 6 [] r = "R15w" -> 7

Reg16_is_extension(r) ==
    r \in {"R8w", "R9w", "R10w", "R11w", "R12w", "R13w", "R14w", "R15w"}

Reg32 == {"Eax", "Ebx", "Ecx", "Edx", "Esi", "Edi", "Ebp", "Esp",
          "R8d", "R9d", "R10d", "R11d", "R12d", "R13d", "R14d", "R15d"}

Reg32_offset(r) ==
    CASE r = "Eax" -> 0 [] r = "Ecx" -> 1 [] r = "Edx" -> 2 [] r = "Ebx" -> 3
      [] r = "Esp" -> 4 [] r = "Ebp" -> 5 [] r = "Esi" -> 6 [] r = "Edi" -> 7
      [] r = "R8d" -> 0 [] r = "R9d" -> 1 [] r = "R10d" -> 2 [] r = "R11d" -> 3
      [] r = "R12d" -> 4 [] r = "R13d" -> 5 [] r = "R14d" -> 6 [] r = "R15d" -> 7

Reg32_is_extension(r) ==
    r \in {"R8d", "R9d", "R10d", "R11d", "R12d", "R13d", "R14d", "R15d"}

Reg64 == {"Rax", "Rbx", "Rcx", "Rdx", "Rsi", "Rdi", "Rbp", "Rsp",
          "R8", "R9", "R10", "R11", "R12", "R13", "R14", "R15"}

Reg64_offset(r) ==
    CASE r = "Rax" -> 0 [] r = "Rcx" -> 1 [] r = "Rdx" -> 2 [] r = "Rbx" -> 3
      [] r = "Rsp" -> 4 [] r = "Rbp" -> 5 [] r = "Rsi" -> 6 [] r = "Rdi" -> 7
      [] r = "R8" -> 0 [] r = "R9" -> 1 [] r = "R10" -> 2 [] r = "R11" -> 3
      [] r = "R12" -> 4 [] r = "R13" -> 5 [] r = "R14" -> 6 [] r = "R15" -> 7

Reg64_is_extension(r) ==
    r \in {"R8", "R9", "R10", "R11", "R12", "R13", "R14", "R15"}

(***************************************************************************)
(* entity.rs: LabelRef, EntityList and Label.                              *)
(***************************************************************************)
\* `value as u32`: the low 32 bits of value, computed limb by limb
LabelRef_new(value) == (value % 65536) + 65536 * ((value \div 65536) % 65536)

LabelRef_as_usize(r) == r

EntityList_new == << >>

\* a faulty push: the reference is taken from the length after the push
EntityList_push_late_ref(private, item) ==
    [private |-> Append(private, item), r |-> LabelRef_new(Len(Append(private, item)))]

\* the list after the push, and the reference the push returns
EntityList_push(private, item) ==
    [private |-> Append(private, item), r |-> LabelRef_new(Len(private))]

\* Vec indexing is 0-based, a TLA+ sequence 1-based
EntityList_get(private, item) == private[LabelRef_as_usize(item) + 1]

\* *get_mut(item) = value
EntityList_set(private, item, value) ==
    [private EXCEPT ![LabelRef_as_usize(item) + 1] = value]

EntityList_len(private) == Len(private)

\* Label::Unattached carries no offset; the field is a placeholder that no
\* definition reads while the tag is "Unattached"
Unattached == [tag |-> "Unattached", offset |-> 0]

Attached(n) == [tag |-> "Attached", offset |-> n]

(***************************************************************************)
(* lib.rs: Product.                                                        *)
(***************************************************************************)
Product_new(bs) == [bytes |-> bs]

Product_emit(p) == p.bytes

(***************************************************************************)
(* stream.rs: impl InstructionStream for x86_64InstructionStream, as       *)
(* functions of the label list ls or the byte buffer bs.                   *)
(***************************************************************************)
create_label(ls) == EntityList_push(ls, Unattached)

\* a faulty create_label_attached: the offset is the length after the push
create_label_attached_late_len(ls) ==
    EntityList_push(ls, Attached(EntityList_len(ls) + 1))

\* the argument Label::Attached(self.labels.len()) is evaluated before the push
create_label_attached(ls) == EntityList_push(ls, Attached(EntityList_len(ls)))

\* a faulty attach_label: the attached label is pushed instead of overwritten
attach_label_pushing(ls, label) ==
    EntityList_push(ls, Attached(EntityList_len(ls))).private

\* a faulty attach_label: attaching an attached label detaches it
attach_label_toggling(ls, label) ==
    IF EntityList_get(ls, label).tag = "Attached"
    THEN EntityList_set(ls, label, Unattached)
    ELSE EntityList_set(ls, label, Attached(EntityList_len(ls)))

attach_label(ls, label) == EntityList_set(ls, label, Attached(EntityList_len(ls)))

RECURSIVE to_be_bytes(_)
\* a faulty to_le_bytes: the bytes most significant first
to_be_bytes(word) ==
    IF word = << >> THEN << >>
    ELSE << (word[1] \div 256) % 256, word[1] % 256 >> \o to_be_bytes(Tail(word))

RECURSIVE to_le_bytes(_)
\* the bytes of an integer given by its 16-bit limbs, least significant byte first
to_le_bytes(word) ==
    IF word = << >> THEN << >>
    ELSE << word[Len(word)] % 256, (word[Len(word)] \div 256) % 256 >>
         \o to_le_bytes(SubSeq(word, 1, Len(word) - 1))

write_byte(bs, byte) == Append(bs, byte)

write_word(bs, word) == bs \o to_le_bytes(word)

write_double_word(bs, word) == bs \o to_le_bytes(word)

write_quad_word(bs, word) == bs \o to_le_bytes(word)

write_double_quad_word(bs, word) == bs \o to_le_bytes(word)

finish(bs) == Product_new(bs)

(***************************************************************************)
(* stream.rs: impl x86_64InstructionStream, the instruction forms, as      *)
(* functions of the byte buffer bs.                                        *)
(***************************************************************************)
\* a faulty ModRM: the two register fields exchanged
ModRM_swapped(src_offset, dest_offset) ==
    BitOr(BitOr(Shl8(3, 6), Shl8(dest_offset, 3)), src_offset)

\* (0b11 << 6) | (src.offset() << 3) | (dest.offset())
ModRM(src_offset, dest_offset) ==
    BitOr(BitOr(Shl8(3, 6), Shl8(src_offset, 3)), dest_offset)

\* the prefix of the register-to-register forms: base, then REX_B for the
\* destination and REX_R for the source
RexPrefix(base, dest_flag, src_flag) ==
    LET p1 == IF dest_flag THEN BitOr(base, REX_B) ELSE base
    IN  IF src_flag THEN BitOr(p1, REX_R) ELSE p1

mov_reg8_reg8(bs, dest, src) ==
    LET is_dest_extension == Reg8_is_extension(dest)
        is_src_extension == Reg8_is_extension(src)
        is_dest_reserved == Reg8_is_reserved(dest)
        is_src_reserved == Reg8_is_reserved(src)
        b1 == IF is_dest_extension \/ is_src_extension \/ is_dest_reserved \/ is_src_reserved
              THEN write_byte(bs, RexPrefix(REX, is_dest_extension \/ is_dest_reserved,
                                            is_src_extension \/ is_src_reserved))
              ELSE bs
        b2 == write_byte(b1, 88)
    IN  write_byte(b2, ModRM(Reg8_offset(src), Reg8_offset(dest)))

mov_reg16_reg16(bs, dest, src) ==
    LET b0 == write_byte(bs, 102)
        is_dest_extension == Reg16_is_extension(dest)
        is_src_extension == Reg16_is_extension(src)
        b1 == IF is_dest_extension \/ is_src_extension
              THEN write_byte(b0, RexPrefix(REX, is_dest_extension, is_src_extension))
              ELSE b0
        b2 == write_byte(b1, 137)
    IN  write_byte(b2, ModRM(Reg16_offset(src), Reg16_offset(dest)))

mov_reg32_reg32(bs, dest, src) ==
    LET is_dest_extension == Reg32_is_extension(dest)
        is_src_extension == Reg32_is_extension(src)
        b1 == IF is_dest_extension \/ is_src_extension
              THEN write_byte(bs, RexPrefix(REX, is_dest_extension, is_src_extension))
              ELSE bs
        b2 == write_byte(b1, 137)
    IN  write_byte(b2, ModRM(Reg32_offset(src), Reg32_offset(dest)))

\* a faulty mov_reg64_reg64: the prefix starts from REX without REX_W
mov_reg64_reg64_no_w(bs, dest, src) ==
    LET prefix == RexPrefix(REX, Reg64_is_extension(dest), Reg64_is_extension(src))
        b1 == write_byte(bs, prefix)
        b2 == write_byte(b1, 137)
    IN  write_byte(b2, ModRM(Reg64_offset(src), Reg64_offset(dest)))

mov_reg64_reg64(bs, dest, src) ==
    LET prefix == RexPrefix(BitOr(REX, REX_W), Reg64_is_extension(dest),
                            Reg64_is_extension(src))
        b1 == write_byte(bs, prefix)
        b2 == write_byte(b1, 137)
    IN  write_byte(b2, ModRM(Reg64_offset(src), Reg64_offset(dest)))

\* a faulty mov_reg8_imm8: no prefix for a reserved destination
mov_reg8_imm8_no_reserved(bs, dest, src) ==
    LET b1 == IF Reg8_is_extension(dest) THEN write_byte(bs, BitOr(REX, REX_B)) ELSE bs
        b2 == write_byte(b1, 176 + Reg8_offset(dest))
    IN  write_byte(b2, src)

mov_reg8_imm8(bs, dest, src) ==
    LET b1 == IF Reg8_is_extension(dest) THEN write_byte(bs, BitOr(REX, REX_B))
              ELSE IF Reg8_is_reserved(dest) THEN write_byte(bs, REX)
              ELSE bs
        b2 == write_byte(b1, 176 + Reg8_offset(dest))
    IN  write_byte(b2, src)

mov_reg16_imm16(bs, dest, src) ==
    LET b0 == write_byte(bs, 102)
        b1 == IF Reg16_is_extension(dest) THEN write_byte(b0, BitOr(REX, REX_B)) ELSE b0
        b2 == write_byte(b1, 184 + Reg16_offset(dest))
    IN  write_word(b2, src)

mov_reg32_imm32(bs, dest, src) ==
    LET b1 == IF Reg32_is_extension(dest) THEN write_byte(bs, BitOr(REX, REX_B)) ELSE bs
        b2 == write_byte(b1, 184 + Reg32_offset(dest))
    IN  write_double_word(b2, src)

mov_reg64_imm32(bs, dest, src) ==
    LET prefix == RexPrefix(BitOr(REX, REX_W), Reg64_is_extension(dest), FALSE)
        b1 == write_byte(bs, prefix)
        b2 == write_byte(b1, 199 + Reg64_offset(dest))
    IN  write_double_word(b2, src)

mov_reg64_imm64(bs, dest, src) ==
    LET prefix == RexPrefix(BitOr(REX, REX_W), Reg64_is_extension(dest), FALSE)
        b1 == write_byte(bs, prefix)
        b2 == write_byte(b1, 184 + Reg64_offset(dest))
    IN  write_quad_word(b2, src)

push_reg16(bs, reg16) ==
    write_byte(write_byte(bs, BitOr(REX, REX_X)), 80 + Reg16_offset(reg16))

push_reg64(bs, reg64) ==
    LET b1 == IF Reg64_is_extension(reg64) THEN write_byte(bs, 65) ELSE bs
    IN  write_byte(b1, 80 + Reg64_offset(reg64))

intrinsic_push_rbp(bs) == push_reg64(bs, "Rbp")

push_imm8(bs, imm8) == write_byte(write_byte(bs, 106), imm8)

\* imm16 as u32: zero-extended by one limb
push_imm16(bs, imm16) == write_double_word(write_byte(bs, 104), << 0 >> \o imm16)

push_imm32(bs, imm32) == write_double_word(write_byte(bs, 104), imm32)

push_fs(bs) == write_byte(write_byte(bs, 15), 160)

push_gs(bs) == write_byte(write_byte(bs, 15), 168)

ret_near(bs) == write_byte(bs, 195)

ret_far(bs) == write_byte(bs, 203)

ret_near_imm16(bs, imm16) == write_word(write_byte(bs, 194), imm16)

ret_far_imm16(bs, imm16) == write_word(write_byte(bs, 202), imm16)

(***************************************************************************)
(* The state.                                                              *)
(*   bytes, labels  the fields of x86_64InstructionStream                  *)
(*   product        << >> while the stream is live; the one Product that   *)
(*                  finish returned once the stream is consumed            *)
(*   list           the private Vec of an EntityList used on its own       *)
(* History, written by every call and read only by the properties:         *)
(*   call           the last call: its name, operands and label reference *)
(*   pre            bytes and labels as they were before the last call     *)
(*   log            the byte-emitting calls made so far, in call order     *)
(*   issued         the items pushed on list with the refs push returned   *)
(***************************************************************************)
VARIABLES bytes, labels, product, list, call, pre, log, issued

vars == << bytes, labels, product, list, call, pre, log, issued >>

\* imm is << >>, a one-byte sequence for a u8, or the limbs of a wider integer;
\* ref is << >> or the one LabelRef the call returned or was given
Call(op, dest, src, imm, ref) ==
    [op |-> op, dest |-> dest, src |-> src, imm |-> imm, ref |-> ref]

Snapshot == [bytes |-> bytes, labels |-> labels]

\* x86_64InstructionStream::new() and EntityList::new()
Init ==
    /\ bytes = << >>
    /\ labels = EntityList_new
    /\ product = << >>
    /\ list = EntityList_new
    /\ call = Call("new", "-", "-", << >>, << >>)
    /\ pre = [bytes |-> << >>, labels |-> << >>]
    /\ log = << >>
    /\ issued = << >>

\* the inputs the calls are made with
U8Inputs == {18, 255}

U16Inputs == {<< 4660 >>, << 65280 >>}

U32Inputs == {<< 4660, 22136 >>, << 65535, 1 >>}

U64Inputs == {<< 4660, 22136, 39612, 57072 >>, << 65535, 0, 0, 1 >>}

U128Inputs == {<< 1, 2, 3, 4, 5, 6, 7, 65534 >>, << 43981, 0, 0, 0, 0, 0, 0, 255 >>}

Items == {"a", "b", "c"}

(***************************************************************************)
(* The calls on the label registry.  finish consumes the stream, so every  *)
(* call needs product = << >>.  attach_label is called with a reference    *)
(* the stream issued (any other reference panics in get_mut).              *)
(***************************************************************************)
LabelCall(result, op, arg) ==
    /\ product = << >>
    /\ labels' = result
    /\ call' = Call(op, "-", "-", << >>, arg)
    /\ pre' = Snapshot
    /\ UNCHANGED << bytes, product, list, log, issued >>

CreateLabel ==
    /\ Len(labels) < MaxLabels
    /\ LET p == create_label(labels)
       IN  LabelCall(p.private, "create_label", << p.r >>)

CreateLabelAttached ==
    /\ Len(labels) < MaxLabels
    /\ LET p == create_label_attached(labels)
       IN  LabelCall(p.private, "create_label_attached", << p.r >>)

AttachLabel(label) ==
    /\ label \in 0 .. (Len(labels) - 1)
    /\ LabelCall(attach_label(labels, label), "attach_label", << label >>)

(***************************************************************************)
(* The byte-emitting calls: the raw writes and the instruction forms.      *)
(***************************************************************************)
Emit(result, op, dest, src, imm) ==
    /\ product = << >>
    /\ bytes' = result
    /\ call' = Call(op, dest, src, imm, << >>)
    /\ pre' = Snapshot
    /\ log' = Append(log, Call(op, dest, src, imm, << >>))
    /\ UNCHANGED << labels, product, list, issued >>

WriteByte(byte) == Emit(write_byte(bytes, byte), "write_byte", "-", "-", << byte >>)

WriteWord(word) == Emit(write_word(bytes, word), "write_word", "-", "-", word)

WriteDoubleWord(word) ==
    Emit(write_double_word(bytes, word), "write_double_word", "-", "-", word)

WriteQuadWord(word) ==
    Emit(write_quad_word(bytes, word), "write_quad_word", "-", "-", word)

WriteDoubleQuadWord(word) ==
    Emit(write_double_quad_word(bytes, word), "write_double_quad_word", "-", "-", word)

Finish ==
    /\ product = << >>
    /\ product' = << finish(bytes) >>
    /\ call' = Call("finish", "-", "-", << >>, << >>)
    /\ pre' = Snapshot
    /\ UNCHANGED << bytes, labels, list, log, issued >>

MovReg8Reg8(dest, src) ==
    Emit(mov_reg8_reg8(bytes, dest, src), "mov_reg8_reg8", dest, src, << >>)

MovReg16Reg16(dest, src) ==
    Emit(mov_reg16_reg16(bytes, dest, src), "mov_reg16_reg16", dest, src, << >>)

MovReg32Reg32(dest, src) ==
    Emit(mov_reg32_reg32(bytes, dest, src), "mov_reg32_reg32", dest, src, << >>)

MovReg64Reg64(dest, src) ==
    Emit(mov_reg64_reg64(bytes, dest, src), "mov_reg64_reg64", dest, src, << >>)

MovReg8Imm8(dest, src) ==
    Emit(mov_reg8_imm8(bytes, dest, src), "mov_reg8_imm8", dest, "-", << src >>)

MovReg16Imm16(dest, src) ==
    Emit(mov_reg16_imm16(bytes, dest, src), "mov_reg16_imm16", dest, "-", src)

MovReg32Imm32(dest, src) ==
    Emit(mov_reg32_imm32(bytes, dest, src), "mov_reg32_imm32", dest, "-", src)

MovReg64Imm32(dest, src) ==
    Emit(mov_reg64_imm32(bytes, dest, src), "mov_reg64_imm32", dest, "-", src)

MovReg64Imm64(dest, src) ==
    Emit(mov_reg64_imm64(bytes, dest, src), "mov_reg64_imm64", dest, "-", src)

PushReg16(reg16) == Emit(push_reg16(bytes, reg16), "push_reg16", reg16, "-", << >>)

PushReg64(reg64) == Emit(push_reg64(bytes, reg64), "push_reg64", reg64, "-", << >>)

IntrinsicPushRbp == Emit(intrinsic_push_rbp(bytes), "intrinsic_push_rbp", "-", "-", << >>)

PushImm8(imm8) == Emit(push_imm8(bytes, imm8), "push_imm8", "-", "-", << imm8 >>)

PushImm16(imm16) == Emit(push_imm16(bytes, imm16), "push_imm16", "-", "-", imm16)

PushImm32(imm32) == Emit(push_imm32(bytes, imm32), "push_imm32", "-", "-", imm32)

PushFs == Emit(push_fs(bytes), "push_fs", "-", "-", << >>)

PushGs == Emit(push_gs(bytes), "push_gs", "-", "-", << >>)

RetNear == Emit(ret_near(bytes), "ret_near", "-", "-", << >>)

RetFar == Emit(ret_far(bytes), "ret_far", "-", "-", << >>)

RetNearImm16(imm16) == Emit(ret_near_imm16(bytes, imm16), "ret_near_imm16", "-", "-", imm16)

RetFarImm16(imm16) == Emit(ret_far_imm16(bytes, imm16), "ret_far_imm16", "-", "-", imm16)

(***************************************************************************)
(* EntityList on its own: pushes of arbitrary items.                       *)
(***************************************************************************)
Push(item) ==
    /\ Len(list) < MaxPushes
    /\ LET p == EntityList_push(list, item)
       IN  /\ list' = p.private
           /\ issued' = Append(issued, [item |-> item, r |-> p.r])
    /\ UNCHANGED << bytes, labels, product, call, pre, log >>

(***************************************************************************)
(* Spec: the label registry of a stream, between byte-emitting calls.      *)
(***************************************************************************)
Next ==
    \/ CreateLabel
    \/ CreateLabelAttached
    \/ \E label \in 0 .. (MaxLabels - 1) : AttachLabel(label)
    \/ (Len(log) < MaxWrites /\ WriteByte(144))
    \/ (Len(log) < MaxWrites /\ WriteWord(<< 4660 >>))
    \/ (Len(log) < MaxWrites /\ RetNear)
    \/ Finish

Spec == Init /\ [][Next]_vars

(***************************************************************************)
(* SpecStream: the label calls between calls of every raw write and of     *)
(* instruction forms.                                                      *)
(***************************************************************************)
NextStream ==
    \/ CreateLabel
    \/ CreateLabelAttached
    \/ \E label \in 0 .. (MaxLabels - 1) : AttachLabel(label)
    \/ (Len(log) < MaxWrites /\ WriteByte(144))
    \/ (Len(log) < MaxWrites /\ WriteWord(<< 4660 >>))
    \/ (Len(log) < MaxWrites /\ WriteDoubleWord(<< 4660, 22136 >>))
    \/ (Len(log) < MaxWrites /\ WriteQuadWord(<< 4660, 22136, 39612, 57072 >>))
    \/ (Len(log) < MaxWrites /\ WriteDoubleQuadWord(<< 1, 2, 3, 4, 5, 6, 7, 65534 >>))
    \/ (Len(log) < MaxWrites /\ MovReg64Reg64("Rax", "R8"))
    \/ Finish

SpecStream == Init /\ [][NextStream]_vars

(***************************************************************************)
(* SpecWrite: the raw writes and finish.                                   *)
(***************************************************************************)
NextWrite ==
    \/ (Len(log) < MaxWrites /\ \E byte \in U8Inputs : WriteByte(byte))
    \/ (Len(log) < MaxWrites /\ \E word \in U16Inputs : WriteWord(word))
    \/ (Len(log) < MaxWrites /\ \E word \in U32Inputs : WriteDoubleWord(word))
    \/ (Len(log) < MaxWrites /\ \E word \in U64Inputs : WriteQuadWord(word))
    \/ (Len(log) < MaxWrites /\ \E word \in U128Inputs : WriteDoubleQuadWord(word))
    \/ Finish

SpecWrite == Init /\ [][NextWrite]_vars

(***************************************************************************)
(* SpecEntity: pushes on an EntityList.                                    *)
(***************************************************************************)
NextEntity == \E item \in Items : Push(item)

SpecEntity == Init /\ [][NextEntity]_vars

(***************************************************************************)
(* SpecEncode: the instruction forms, each called with every register and  *)
(* with the inputs above, on a buffer of at most MaxStart bytes.           *)
(***************************************************************************)
\* the bound on the instruction forms: the buffer holds at most MaxStart bytes
Ready == Len(bytes) <= MaxStart

NextEncode ==
    \/ (Ready /\ \E dest \in Reg8, src \in Reg8 : MovReg8Reg8(dest, src))
    \/ (Ready /\ \E dest \in Reg16, src \in Reg16 : MovReg16Reg16(dest, src))
    \/ (Ready /\ \E dest \in Reg32, src \in Reg32 : MovReg32Reg32(dest, src))
    \/ (Ready /\ \E dest \in Reg64, src \in Reg64 : MovReg64Reg64(dest, src))
    \/ (Ready /\ \E dest \in Reg8, src \in U8Inputs : MovReg8Imm8(dest, src))
    \/ (Ready /\ \E dest \in Reg16, src \in U16Inputs : MovReg16Imm16(dest, src))
    \/ (Ready /\ \E dest \in Reg32, src \in U32Inputs : MovReg32Imm32(dest, src))
    \/ (Ready /\ \E dest \in Reg64, src \in U32Inputs : MovReg64Imm32(dest, src))
    \/ (Ready /\ \E dest \in Reg64, src \in U64Inputs : MovReg64Imm64(dest, src))
    \/ (Ready /\ \E reg16 \in Reg16 : PushReg16(reg16))
    \/ (Ready /\ \E reg64 \in Reg64 : PushReg64(reg64))
    \/ (Ready /\ IntrinsicPushRbp)
    \/ (Ready /\ \E imm8 \in U8Inputs : PushImm8(imm8))
    \/ (Ready /\ \E imm16 \in U16Inputs : PushImm16(imm16))
    \/ (Ready /\ \E imm32 \in U32Inputs : PushImm32(imm32))
    \/ (Ready /\ PushFs)
    \/ (Ready /\ PushGs)
    \/ (Ready /\ RetNear)
    \/ (Ready /\ RetFar)
    \/ (Ready /\ \E imm16 \in U16Inputs : RetNearImm16(imm16))
    \/ (Ready /\ \E imm16 \in U16Inputs : RetFarImm16(imm16))

SpecEncode == Init /\ [][NextEncode]_vars

(***************************************************************************)
(* Vocabulary of the properties.                                           *)
(***************************************************************************)
\* the bytes the last call appended
Emitted == SubSeq(bytes, Len(pre.bytes) + 1, Len(bytes))

\* byte k (0 = least significant) of the integer with the given limbs
ValueByte(limbs, k) ==
    (limbs[Len(limbs) - (k \div 2)] \div (IF k % 2 = 0 THEN 1 ELSE 256)) % 256

\* bit n (0 = least significant) of a
Bit(a, n) == (a \div Pow2(n)) % 2

\* a byte of the form 0100xxxx
IsRex(b) == b \div 16 = 4

WriteOps ==
    {"write_byte", "write_word", "write_double_word", "write_quad_word",
     "write_double_quad_word"}

\* the number of bytes the claim gives each raw write
Width(op) ==
    CASE op = "write_byte" -> 1
      [] op = "write_word" -> 2
      [] op = "write_double_word" -> 4
      [] op = "write_quad_word" -> 8
      [] op = "write_double_quad_word" -> 16

RECURSIVE LogOffset(_, _)
\* the number of bytes due to the calls before the i-th of l
LogOffset(l, i) == IF i = 1 THEN 0 ELSE LogOffset(l, i - 1) + Width(l[i - 1].op)

C2_AttachedAtByteIndex ==
    call.op = "create_label_attached" =>
        labels[Len(labels)] = Attached(Len(bytes))

C4_AppendOnlyOrdered ==
    /\ call.op \in WriteOps =>
          LET n == Len(pre.bytes)
              w == Width(call.op)
          IN  /\ Len(bytes) = n + w
              /\ SubSeq(bytes, 1, n) = pre.bytes
              /\ \A k \in 0 .. (w - 1) : bytes[n + k + 1] = ValueByte(call.imm, k)
    /\ product # << >> =>
          LET out == Product_emit(product[1])
          IN  /\ Len(out) = LogOffset(log, Len(log) + 1)
              /\ \A i \in 1 .. Len(log) :
                    \A k \in 0 .. (Width(log[i].op) - 1) :
                        out[LogOffset(log, i) + k + 1] = ValueByte(log[i].imm, k)

\* C4's case: a multi-byte write after another write, then finish.
C4_Witness ==
    /\ product # << >>
    /\ Len(log) = 2
    /\ log[1].op = "write_double_word"
    /\ log[2].op = "write_quad_word"
    /\ Product_emit(product[1])[1] # Product_emit(product[1])[4]

(***************************************************************************)
(* The instruction forms (SpecEncode).                                     *)
(***************************************************************************)
\* C5: the last byte a register-to-register move appends has top two bits 11,
\* middle three bits src.offset() and low three bits dest.offset(), whatever
\* prefix bytes came before it.
C5_OperandByte ==
    LET last == bytes[Len(bytes)]
        Fields(s, d) ==
            /\ Len(bytes) > Len(pre.bytes)
            /\ last \div 64 = 3
            /\ (last \div 8) % 8 = s
            /\ last % 8 = d
    IN  /\ call.op = "mov_reg8_reg8" =>
              Fields(Reg8_offset(call.src), Reg8_offset(call.dest))
        /\ call.op = "mov_reg16_reg16" =>
              Fields(Reg16_offset(call.src), Reg16_offset(call.dest))
        /\ call.op = "mov_reg32_reg32" =>
              Fields(Reg32_offset(call.src), Reg32_offset(call.dest))
        /\ call.op = "mov_reg64_reg64" =>
              Fields(Reg64_offset(call.src), Reg64_offset(call.dest))

\* C5's case: a move between registers of different offsets that needs a
\* prefix, appended to a buffer that holds a byte.
C5_Witness ==
    /\ call.op = "mov_reg8_reg8"
    /\ call.dest = "R9b"
    /\ call.src = "Dh"
    /\ Len(pre.bytes) = 1
    /\ Len(Emitted) = 3

\* C6: every 16-bit form (mov_reg16_reg16, mov_reg16_imm16, push_reg16) emits
\* the operand-size override 0x66 as the first byte of its encoding.
C6_OperandSizeOverrideFirst ==
    call.op \in {"mov_reg16_reg16", "mov_reg16_imm16", "push_reg16"} =>
        /\ Len(Emitted) >= 1
        /\ Emitted[1] = 102

\* C7: an 8-bit move whose destination is Spl, Bpl, Sil or Dil and whose other
\* operand, if any, is neither extension nor reserved emits the bare prefix
\* 0x40, no extension bit set, before the opcode.
C7_BarePrefixForReserved ==
    /\ ( /\ call.op = "mov_reg8_reg8"
         /\ Reg8_is_reserved(call.dest)
         /\ ~Reg8_is_extension(call.src)
         /\ ~Reg8_is_reserved(call.src) ) =>
            /\ Len(Emitted) = 3
            /\ Emitted[1] = 64
    /\ (call.op = "mov_reg8_imm8" /\ Reg8_is_reserved(call.dest)) =>
            /\ Len(Emitted) = 3
            /\ Emitted[1] = 64

\* C8 as stated: every form on a 64-bit register operand (mov_reg64_reg64,
\* mov_reg64_imm32, mov_reg64_imm64, push_reg64) sets REX_W on the 0x40 base in
\* every prefix byte it emits (every byte before its opcode byte);
\* mov_reg64_reg64 of two non-extended registers emits 0x48, 0x89 and the
\* operand byte.
C8_WidthBitInEveryPrefix ==
    /\ call.op \in {"mov_reg64_reg64", "mov_reg64_imm32", "mov_reg64_imm64"} =>
          /\ IsRex(Emitted[1])
          /\ Bit(Emitted[1], 3) = 1
    /\ call.op = "push_reg64" =>
          \A i \in 1 .. (Len(Emitted) - 1) :
              /\ IsRex(Emitted[i])
              /\ Bit(Emitted[i], 3) = 1
    /\ ( /\ call.op = "mov_reg64_reg64"
         /\ ~Reg64_is_extension(call.dest)
         /\ ~Reg64_is_extension(call.src) ) =>
            Emitted = << 72, 137,
                         192 + 8 * Reg64_offset(call.src) + Reg64_offset(call.dest) >>

\* C8 as amended: the three 64-bit moves emit one prefix byte, their first,
\* with REX_W set on the 0x40 base, for every Reg64 operand, and their opcode
\* follows it; mov_reg64_reg64 of two non-extended registers emits 0x48, 0x89
\* and the operand byte.  push_reg64 emits no prefix for a non-extended
\* register and the prefix 0x41, REX_W clear, for an extended one.
C8_WidthBitInMovPrefix ==
    /\ call.op \in {"mov_reg64_reg64", "mov_reg64_imm32", "mov_reg64_imm64"} =>
          /\ IsRex(Emitted[1])
          /\ Bit(Emitted[1], 3) = 1
    /\ call.op = "mov_reg64_reg64" => Len(Emitted) = 3 /\ Emitted[2] = 137
    /\ call.op = "mov_reg64_imm32" =>
          Len(Emitted) = 6 /\ Emitted[2] = 199 + Reg64_offset(call.dest)
    /\ call.op = "mov_reg64_imm64" =>
          Len(Emitted) = 10 /\ Emitted[2] = 184 + Reg64_offset(call.dest)
    /\ ( /\ call.op = "mov_reg64_reg64"
         /\ ~Reg64_is_extension(call.dest)
         /\ ~Reg64_is_extension(call.src) ) =>
            Emitted = << 72, 137,
                         192 + 8 * Reg64_offset(call.src) + Reg64_offset(call.dest) >>
    /\ call.op = "push_reg64" =>
          Emitted = IF Reg64_is_extension(call.dest)
                    THEN << 65, 80 + Reg64_offset(call.dest) >>
                    ELSE << 80 + Reg64_offset(call.dest) >>

\* C8's case: a 64-bit move between two non-extended registers, after a
\* push_reg64 that emitted no prefix.
C8_Witness ==
    /\ call.op = "mov_reg64_reg64"
    /\ call.dest = "Rbx"
    /\ call.src = "Rsi"
    /\ Emitted = << 72, 137, 243 >>
    /\ Len(log) = 2
    /\ log[1].op = "push_reg64"

\* C9: mov_reg8_imm8, mov_reg16_imm16 and mov_reg32_imm32 emit 0x66 for the
\* 16-bit form only, then one prefix byte exactly when the destination is an
\* extension register (or, for 8 bits, a reserved one), then the opcode
\* 0xb0 (8-bit) or 0xb8 plus dest.offset(), then the immediate little-endian
\* at the operand width: 2 bytes for an 8-bit move into a non-extended,
\* non-reserved register, 5 bytes for a 16-bit move into an extended one.
C9_ImmediateMoves ==
    LET Form(lead, prefixed, opcode, width) ==
            LET p == Len(lead) + (IF prefixed THEN 1 ELSE 0)
            IN  /\ Len(Emitted) = p + 1 + width
                /\ SubSeq(Emitted, 1, Len(lead)) = lead
                /\ prefixed => IsRex(Emitted[p])
                /\ Emitted[p + 1] = opcode
                /\ \A k \in 0 .. (width - 1) :
                      Emitted[p + 2 + k] = ValueByte(call.imm, k)
    IN  /\ call.op = "mov_reg8_imm8" =>
              /\ Form(<< >>,
                      Reg8_is_extension(call.dest) \/ Reg8_is_reserved(call.dest),
                      176 + Reg8_offset(call.dest), 1)
              /\ (~Reg8_is_extension(call.dest) /\ ~Reg8_is_reserved(call.dest))
                    => Len(Emitted) = 2
        /\ call.op = "mov_reg16_imm16" =>
              /\ Form(<< 102 >>, Reg16_is_extension(call.dest),
                      184 + Reg16_offset(call.dest), 2)
              /\ Reg16_is_extension(call.dest) => Len(Emitted) = 5
        /\ call.op = "mov_reg32_imm32" =>
              Form(<< >>, Reg32_is_extension(call.dest),
                   184 + Reg32_offset(call.dest), 4)

\* C9's case: a 16-bit immediate move into an extended register, 5 bytes,
\* appended to a buffer that holds a byte.
C9_Witness ==
    /\ call.op = "mov_reg16_imm16"
    /\ call.dest = "R10w"
    /\ Emitted = << 102, 65, 186, 52, 18 >>
    /\ Len(log) = 2
    /\ pre.bytes = << 195 >>

(***************************************************************************)
(* The lifetime of a label (SpecStream).                                   *)
(***************************************************************************)
\* C11: under any sequence of create_label, create_label_attached,
\* attach_label, write_* and instruction calls, the registry length never
\* decreases, no label is removed, an Attached label never becomes Unattached,
\* and a label changes only to Attached(offset).
C11_LabelLifetime ==
    [][ /\ Len(labels') >= Len(labels)
        /\ \A i \in 1 .. Len(labels) :
              /\ labels[i].tag = "Attached" => labels'[i].tag = "Attached"
              /\ labels'[i] # labels[i] => labels'[i].tag = "Attached"
      ]_vars

\* C11's case: bytes were emitted by a raw write and by an instruction form,
\* and then a label that was Attached was attached again at a new offset
\* while another label stayed Unattached.
C11_Witness ==
    /\ call.op = "attach_label"
    /\ pre.labels[call.ref[1] + 1].tag = "Attached"
    /\ labels[call.ref[1] + 1] # pre.labels[call.ref[1] + 1]
    /\ Len(log) = 2
    /\ log[1].op = "mov_reg64_reg64"
    /\ log[2].op = "write_quad_word"
    /\ \E i \in 1 .. Len(labels) : labels[i].tag = "Unattached"

(***************************************************************************)
(* The 8-bit register-to-register move as a code (SpecEncode).             *)
(***************************************************************************)
\* C12: mov_reg8_reg8 is unambiguous: no operand pair other than the one it
\* was called with makes it append the same bytes, so registers that share an
\* offset (Spl, Ah, R12b) are told apart by the prefix byte.
C12_Mov8Unambiguous ==
    call.op = "mov_reg8_reg8" =>
        \A dest \in Reg8, src \in Reg8 :
            << dest, src >> # << call.dest, call.src >>
                => mov_reg8_reg8(pre.bytes, dest, src) # bytes

====
